---------------------------- MODULE Spec2Model ----------------------------
(***************************************************************************)
(* A model of goes_viewer: the GeoColor pipeline of process_files.py       *)
(* (colorize, resample, name, save), the metadata writer of                *)
(* write_metadata.py, and the delivery coordinators, lock markers and      *)
(* retention sweep that cli.py's process-files command drives.             *)
(*                                                                         *)
(* Each part of the program has its own variables, its own initial         *)
(* predicate and next-state relation, and a specification that runs that   *)
(* part while the other parts stay at rest.                                *)
(***************************************************************************)
EXTENDS Integers, Sequences, FiniteSets, TLC

VARIABLES
    \* ---- make_geocolor_image, one pixel (the array math is elementwise)
    gpc,          \* position in make_geocolor_image
    CONTRAST,     \* config.CONTRAST
    R, NIR, B,    \* CMI_C02, CMI_C03, CMI_C01
    C13,          \* CMI_C13
    ir_range,     \* max_brightness_temperature_C13.valid_range
    G,            \* the synthesized green
    cleanIR,      \* the clean-IR overlay
    RGB_ColorIR,  \* the three maxima
    F,            \* the contrast factor, <<numerator, denominator>>
    out           \* the returned composite pixel, <<r, g, b>>

colorVars == <<gpc, CONTRAST, R, NIR, B, C13, ir_range, G, cleanIR,
               RGB_ColorIR, F, out>>

VARIABLES
    \* ---- resample_image
    rpc,              \* position in resample_image
    img_arr,          \* the composite, one <<r, g, b>> per source cell
    resample_params,  \* the bilinear info, one entry per output cell
    bands,            \* the color bands resampled so far
    nimg              \* the returned raster, one <<r, g, b, a>> per cell

resampleVars == <<rpc, img_arr, resample_params, bands, nimg>>

VARIABLES
    \* ---- process_sqs_event, process_s3_file, save_s3
    handler,       \* the handler: "idle", "running", "returned", "raised"
    lpc,           \* position in process_sqs_event
    nEvents,       \* events delivered so far
    nErec,         \* records of event['Records'] taken so far
    nRec,          \* records of rec['Records'] taken so far
    record,        \* the S3 object of the current record
    ds,            \* the dataset open_file returned
    weights,       \* what make_resample_params returned
    filename,      \* what make_img_filename returned
    store,         \* the save bucket: filename -> content
    firstWritten,  \* history: the content each filename was first saved with
    weightRuns,    \* history: calls of make_resample_params, per grid shape
    resampled      \* history: units resampled, per grid shape

lambdaVars == <<handler, lpc, nEvents, nErec, nRec, record, ds, weights,
                filename, store, firstWritten, weightRuns, resampled>>

VARIABLES
    \* ---- update_existing_file
    mpc,        \* position in update_existing_file
    nRuns,      \* runs of update_existing_file started so far
    metadir,    \* metadata_file.parent: file name -> [content, mode]
    before,     \* history: the metadata file when the current run began
    latest,     \* what get_latest_data returned
    caught,     \* the exception the except clause caught
    raised      \* the exception that left update_existing_file

metaVars == <<mpc, nRuns, metadir, before, latest, caught, raised>>

VARIABLES
    \* ---- the queue-mode coordinator behind "process-files SQS_URL"
    qpc,          \* the unit: "receive", "leased", "running", "finished",
                  \*   "stopped"
    msgs,         \* the queue: message -> "visible", "inflight", "deleted"
    unit,         \* the message of the LeaseHandle
    stopFlag,     \* the LeaseHandle's cooperative-stop flag
    heartbeat,    \* the lease-renewal task: "none", "running", "ended"
    now,          \* time since the message was received
    renewDue,     \* when the heartbeat next renews the lease
    leaseUntil,   \* when the message's lease runs out
    startedAt,    \* when the pipeline began
    outcome,      \* message -> "none", "running", "ok", "raised"
    deliveries,   \* receives so far
    duration,     \* history: how long the unit's pipeline ran
    renewals,     \* history: renewals of the unit's lease before its delete
    lateRenewals  \* history: renewals of a message already deleted

queueVars == <<qpc, msgs, unit, stopFlag, heartbeat, now, renewDue,
               leaseUntil, startedAt, outcome, deliveries, duration,
               renewals, lateRenewals>>

VARIABLES
    \* ---- the poll-mode coordinator
    ppc,        \* the invocation: "idle", "list", "check", "touch",
                \*   "pipeline", "unlink"
    markers,    \* the LockMarkers on disk, by last-modified stamp
    cand,       \* the stamp of the candidate at hand
    nPolls,     \* invocations so far
    nCands,     \* candidates of this invocation's listing so far
    result,     \* the candidate's pipeline: "none", "ok", "raised"
    hadMarker   \* history: the candidate's marker existed when looked for

pollVars == <<ppc, markers, cand, nPolls, nCands, result, hadMarker>>

VARIABLES
    \* ---- the retention sweeper
    spc,        \* the sweep: "off", "idle", "scan", "parsed", "done"
    outdir,     \* the names in the output directory
    dir0,       \* history: the directory when the sweep began
    todo,       \* the names of the scan not yet visited
    fname,      \* the name at hand
    stamp,      \* its parsed timestamp, in hours, or Unparsed
    swnow,      \* the sweep's clock, in hours
    max_age,    \* the retention threshold, in hours
    logged      \* the names logged as not parsing

sweepVars ==
    <<spc, outdir, dir0, todo, fname, stamp, swnow, max_age, logged>>

VARIABLES
    \* ---- filter_sqs.lambda_handler
    fpc,         \* the handler: "off", "idle", "erec", "rec", "send",
                 \*   "respond", "returned", "raised"
    fnErec,      \* records of event['Records'] taken so far
    fnRec,       \* records of rec['Records'] taken so far
    entries,     \* the batch being built
    entry_i,     \* the handler's counter i
    fseen,       \* history: the S3 records met, in event order
    sendCalls,   \* history: the Entries of each send_messages call
    statusCode   \* the statusCode returned, 0 before the return

forwardVars ==
    <<fpc, fnErec, fnRec, entries, entry_i, fseen, sendCalls, statusCode>>

VARIABLES
    \* ---- get_s3_keys
    kpc,          \* the generator: "off", "idle", "request", "count",
                  \*   "contents", "token", "done"
    s3keys,       \* the keys of the bucket, in listing order
    prefix,       \* the prefix argument
    timestamp,    \* the timestamp argument, in hours, or NoTimestamp
    max_keys,     \* the most keys the service puts in one page
    kwargs,       \* the request: Prefix and ContinuationToken
    resp,         \* the last response
    objIdx,       \* position in resp["Contents"]
    yielded,      \* history: the keys yielded, in order
    pages,        \* history: the responses, in order
    requests      \* history: the ContinuationToken of each request

listVars ==
    <<kpc, s3keys, prefix, timestamp, max_keys, kwargs, resp, objIdx,
      yielded, pages, requests>>

VARIABLES
    \* ---- make_img_filename, for two units
    npc,        \* "off", "idle", "first", "done"
    unitA,      \* a unit: platform_ID and t, in ticks
    unitB,      \* another
    nameA,      \* the filename of the first, <<>> before the call
    nameB       \* the filename of the second

nameVars == <<npc, unitA, unitB, nameA, nameB>>

VARIABLES
    \* ---- run_loop, run_times, silent_exit
    cpc,           \* run_loop: "off", "idle", "direct", "next", "check",
                   \*   "sleeplen", "sleep", "submit", "result",
                   \*   "returned", "crashed", "exited"
    cron,          \* the period of the schedule, or NoCron
    clock,         \* the time
    iterLast,      \* the time croniter last returned, or its start time
    next_time,     \* run_times' next_time
    rt,            \* the run time run_loop acts on
    sleep_length,  \* run_loop's sleep_length
    wakeAt,        \* the earliest time the sleep may end
    child,         \* the submitted call: "none", "running", "returned",
                   \*   "raised", "exit"
    inFlight,      \* calls of the work function under way
    drawnAt,       \* history: the time at which rt was yielded
    runStart,      \* history: the time the last run was submitted
    prevRt,        \* history: the run time acted on before rt
    prevEnd,       \* history: the time the last finished run ended
    skipped        \* history: the scheduled times passed over

cronVars ==
    <<cpc, cron, clock, iterLast, next_time, rt, sleep_length, wakeAt,
      child, inFlight, drawnAt, runStart, prevRt, prevEnd, skipped>>

VARIABLES
    \* ---- the dashboard's playback controls
    active,        \* play_buttons.active: 0 play, 1 stop, 2 reset
    slider_value,  \* slider.value
    slider_end,    \* slider.end
    interval_id,   \* play_buttons._id, 0 while undefined
    intervals,     \* the ids of the intervals that are set
    timeouts,      \* how many startover timeouts are pending
    next_timer,    \* the id the next setInterval returns
    speed,         \* speed_source.data['speed'][0]
    speed_incr,    \* the speed_incr argument
    clicks,        \* clicks on the faster and slower buttons so far
    lastClick,     \* history: "none", "faster", "slower"
    prevSpeed,     \* history: speed before the last click
    autoMoved      \* history: a timer moved the slider, or restarted the
                   \*   playback, since stop or reset was selected

playVars ==
    <<active, slider_value, slider_end, interval_id, intervals, timeouts,
      next_timer, speed, speed_incr, clicks, lastClick, prevSpeed,
      autoMoved>>

vars ==
    <<colorVars, resampleVars, lambdaVars, metaVars, queueVars, pollVars,
      sweepVars, forwardVars, listVars, nameVars, cronVars, playVars>>

\* what each part leaves alone
nonColorVars ==
    <<resampleVars, lambdaVars, metaVars, queueVars, pollVars, sweepVars,
      forwardVars, listVars, nameVars, cronVars, playVars>>
nonResampleVars ==
    <<colorVars, lambdaVars, metaVars, queueVars, pollVars, sweepVars,
      forwardVars, listVars, nameVars, cronVars, playVars>>
nonLambdaVars ==
    <<colorVars, resampleVars, metaVars, queueVars, pollVars, sweepVars,
      forwardVars, listVars, nameVars, cronVars, playVars>>
nonMetaVars ==
    <<colorVars, resampleVars, lambdaVars, queueVars, pollVars, sweepVars,
      forwardVars, listVars, nameVars, cronVars, playVars>>
nonQueueVars ==
    <<colorVars, resampleVars, lambdaVars, metaVars, pollVars, sweepVars,
      forwardVars, listVars, nameVars, cronVars, playVars>>
nonPollVars ==
    <<colorVars, resampleVars, lambdaVars, metaVars, queueVars, sweepVars,
      forwardVars, listVars, nameVars, cronVars, playVars>>
nonSweepVars ==
    <<colorVars, resampleVars, lambdaVars, metaVars, queueVars, pollVars,
      forwardVars, listVars, nameVars, cronVars, playVars>>
nonForwardVars ==
    <<colorVars, resampleVars, lambdaVars, metaVars, queueVars, pollVars,
      sweepVars, listVars, nameVars, cronVars, playVars>>
nonListVars ==
    <<colorVars, resampleVars, lambdaVars, metaVars, queueVars, pollVars,
      sweepVars, forwardVars, nameVars, cronVars, playVars>>
nonNameVars ==
    <<colorVars, resampleVars, lambdaVars, metaVars, queueVars, pollVars,
      sweepVars, forwardVars, listVars, cronVars, playVars>>
nonCronVars ==
    <<colorVars, resampleVars, lambdaVars, metaVars, queueVars, pollVars,
      sweepVars, forwardVars, listVars, nameVars, playVars>>
nonPlayVars ==
    <<colorVars, resampleVars, lambdaVars, metaVars, queueVars, pollVars,
      sweepVars, forwardVars, listVars, nameVars, cronVars>>

(***************************************************************************)
(* Floating point values.  A finite value is held in fixed point, as an    *)
(* integer number of 1/Scale; NaN and the two infinities are values of     *)
(* their own, with numpy's rules for them.                                 *)
(***************************************************************************)
Num(n) == [k |-> "num", v |-> n]
NaN    == [k |-> "nan", v |-> 0]
PInf   == [k |-> "pinf", v |-> 0]
NInf   == [k |-> "ninf", v |-> 0]
IsNum(x) == x.k = "num"
IsNaN(x) == x.k = "nan"

\* round(100 * (i/100) ^ (1/1.7)) for i = 0..100: np.power(x, gamma) on [0,1]
GammaTable ==
    <<0, 7, 10, 13, 15, 17, 19, 21, 23, 24, 26, 27, 29, 30, 31, 33, 34, 35,
      36, 38, 39, 40, 41, 42, 43, 44, 45, 46, 47, 48, 49, 50, 51, 52, 53, 54,
      55, 56, 57, 57, 58, 59, 60, 61, 62, 63, 63, 64, 65, 66, 67, 67, 68, 69,
      70, 70, 71, 72, 73, 73, 74, 75, 75, 76, 77, 78, 78, 79, 80, 80, 81, 82,
      82, 83, 84, 84, 85, 86, 86, 87, 88, 88, 89, 90, 90, 91, 92, 92, 93, 93,
      94, 95, 95, 96, 96, 97, 98, 98, 99, 99, 100>>

\* the fixed-point value of 1.0
Scale == Len(GammaTable) - 1

Min(a, b) == IF a <= b THEN a ELSE b
Max(a, b) == IF a >= b THEN a ELSE b

\* np.clip(x, 0, 1): a NaN stays a NaN, an infinity goes to the limit
Clip(x) ==
    CASE IsNaN(x) -> NaN
      [] x.k = "pinf" -> Num(Scale)
      [] x.k = "ninf" -> Num(0)
      [] OTHER -> Num(Min(Max(x.v, 0), Scale))

\* 0.45 * R + 0.1 * NIR + 0.45 * B on clipped channels (each a number or NaN)
TrueGreen(r, n, b) ==
    IF IsNaN(r) \/ IsNaN(n) \/ IsNaN(b) THEN NaN
    ELSE Num((45 * r.v + 10 * n.v + 45 * b.v) \div 100)

\* np.power(x, 1 / 1.7) on a clipped channel
Power(x) == IF IsNaN(x) THEN NaN ELSE Num(GammaTable[x.v + 1])

\* (cleanIR - ir_range[0]) / (ir_range[1] - ir_range[0]), IEEE division
NormalizeIR(x, rng) ==
    LET d == rng[2] - rng[1] IN
    CASE IsNaN(x) -> NaN
      [] x.k = "pinf" -> IF d >= 0 THEN PInf ELSE NInf
      [] x.k = "ninf" -> IF d >= 0 THEN NInf ELSE PInf
      [] OTHER ->
           LET n == x.v - rng[1] IN
           IF d # 0 THEN Num((n * Scale) \div d)
           ELSE IF n = 0 THEN NaN
           ELSE IF n > 0 THEN PInf ELSE NInf

\* 1 - cleanIR, then cleanIR / 1.3, on the clipped overlay
Attenuate(x) == IF IsNaN(x) THEN NaN ELSE Num(((Scale - x.v) * 10) \div 13)

\* np.maximum(a, b): a NaN in either operand is the result
Maximum(a, b) ==
    IF IsNaN(a) \/ IsNaN(b) THEN NaN ELSE Num(Max(a.v, b.v))

\* F = (259 * (CONTRAST + 255)) / (255.0 * 259 - CONTRAST), as a fraction
ContrastFactor(c) == <<259 * (c + 255), 255 * 259 - c>>

\* F * (x - 0.5) + 0.5
Stretch(f, x) ==
    IF IsNaN(x) THEN NaN
    ELSE Num((f[1] * (2 * x.v - Scale)) \div (2 * f[2]) + Scale \div 2)

(***************************************************************************)
(* The inputs the model draws for one pixel.                               *)
(***************************************************************************)
DefaultContrast == 105
Contrasts == {-255, 0, DefaultContrast, 255}
ChannelValues == {NaN, PInf, NInf, Num(-20), Num(0), Num(50), Num(130)}
IRValues == {NaN, PInf, Num(150), Num(200), Num(250), Num(320)}
IRRanges == {<<200, 300>>, <<250, 250>>}

Unset == Num(0)

ColorInit ==
    /\ gpc = "load"
    /\ CONTRAST \in Contrasts
    /\ R \in ChannelValues
    /\ NIR \in ChannelValues
    /\ B \in ChannelValues
    /\ C13 \in IRValues
    /\ ir_range \in IRRanges
    /\ G = Unset
    /\ cleanIR = Unset
    /\ RGB_ColorIR = <<Unset, Unset, Unset>>
    /\ F = <<0, 1>>
    /\ out = <<Unset, Unset, Unset>>

ColorIdle ==
    /\ gpc = "off"
    /\ CONTRAST = DefaultContrast
    /\ R = Unset /\ NIR = Unset /\ B = Unset /\ C13 = Unset
    /\ ir_range = <<0, 1>>
    /\ G = Unset
    /\ cleanIR = Unset
    /\ RGB_ColorIR = <<Unset, Unset, Unset>>
    /\ F = <<0, 1>>
    /\ out = <<Unset, Unset, Unset>>

\* lines 57-64: load the channels and clip them to [0, 1]
ClipChannels ==
    /\ gpc = "load"
    /\ R' = Clip(R) /\ NIR' = Clip(NIR) /\ B' = Clip(B)
    /\ gpc' = "green"
    /\ UNCHANGED <<CONTRAST, C13, ir_range, G, cleanIR, RGB_ColorIR, F, out>>
    /\ UNCHANGED nonColorVars

\* lines 67-68: the "true" green
MakeGreen ==
    /\ gpc = "green"
    /\ G' = Clip(TrueGreen(R, NIR, B))
    /\ gpc' = "gamma"
    /\ UNCHANGED <<CONTRAST, R, NIR, B, C13, ir_range, cleanIR, RGB_ColorIR,
                   F, out>>
    /\ UNCHANGED nonColorVars

\* lines 71-74: the gamma correction
GammaCorrect ==
    /\ gpc = "gamma"
    /\ R' = Power(R) /\ G' = Power(G) /\ B' = Power(B)
    /\ gpc' = "ir"
    /\ UNCHANGED <<CONTRAST, NIR, C13, ir_range, cleanIR, RGB_ColorIR, F, out>>
    /\ UNCHANGED nonColorVars

\* lines 76-85: the clean-IR overlay
MakeCleanIR ==
    /\ gpc = "ir"
    /\ cleanIR' = Attenuate(Clip(NormalizeIR(C13, ir_range)))
    /\ gpc' = "max"
    /\ UNCHANGED <<CONTRAST, R, NIR, B, C13, ir_range, G, RGB_ColorIR, F, out>>
    /\ UNCHANGED nonColorVars

\* lines 88-90: the maxima of the color channels and the overlay
Maximize ==
    /\ gpc = "max"
    /\ RGB_ColorIR' = <<Maximum(R, cleanIR), Maximum(G, cleanIR),
                        Maximum(B, cleanIR)>>
    /\ gpc' = "contrast"
    /\ UNCHANGED <<CONTRAST, R, NIR, B, C13, ir_range, G, cleanIR, F, out>>
    /\ UNCHANGED nonColorVars

\* lines 92-95: the contrast stretch and the final clip
ContrastStretch ==
    /\ gpc = "contrast"
    /\ F' = ContrastFactor(CONTRAST)
    /\ out' = [i \in 1..3 |-> Clip(Stretch(F', RGB_ColorIR[i]))]
    /\ gpc' = "returned"
    /\ UNCHANGED <<CONTRAST, R, NIR, B, C13, ir_range, G, cleanIR,
                   RGB_ColorIR>>
    /\ UNCHANGED nonColorVars

ColorNext ==
    \/ ClipChannels
    \/ MakeGreen
    \/ GammaCorrect
    \/ MakeCleanIR
    \/ Maximize
    \/ ContrastStretch

(***************************************************************************)
(* resample_image.  The composite is a row of source cells and the output  *)
(* raster a row of output cells.  The bilinear info gives each output cell *)
(* four source cells and the two fractional distances s and t, or says     *)
(* that no source cell lies within the search radius.                      *)
(***************************************************************************)
NSrc == 2
NOut == 2

NoNeighbours == [valid |-> FALSE, idx |-> <<1, 1, 1, 1>>, s |-> 0, t |-> 0]
BilInfos ==
    {NoNeighbours,
     [valid |-> TRUE, idx |-> <<1, 1, 1, 1>>, s |-> 0, t |-> 0],
     [valid |-> TRUE, idx |-> <<1, 2, 1, 2>>, s |-> 50, t |-> 0],
     [valid |-> TRUE, idx |-> <<2, 1, 1, 2>>, s |-> 50, t |-> 50]}

Pixels ==
    {<<Num(0), Num(0), Num(0)>>, <<Num(100), Num(50), Num(0)>>,
     <<Num(50), Num(100), Num(100)>>, <<NaN, NaN, NaN>>}

\* pyresample.bilinear.get_sample_from_bil_info for one output cell: NaN
\* where the cell has no neighbours or a neighbour is NaN
Sample(data, prm) ==
    IF ~prm.valid THEN NaN
    ELSE LET p == [j \in 1..4 |-> data[prm.idx[j]]] IN
         IF \E j \in 1..4 : IsNaN(p[j]) THEN NaN
         ELSE Num(( (Scale - prm.s) * (Scale - prm.t) * p[1].v
                  + prm.s * (Scale - prm.t) * p[2].v
                  + (Scale - prm.s) * prm.t * p[3].v
                  + prm.s * prm.t * p[4].v ) \div (Scale * Scale))

\* a fill that leaves an invalid cell white instead of zero
FilledOne(x) == IF IsNum(x) THEN x ELSE Num(Scale)

\* np.ma.fix_invalid(out).filled(0): NaN and the infinities become 0
Filled(x) == IF IsNum(x) THEN x ELSE Num(0)

\* (x * 255).astype("uint8")
ToUint8(x) == ((x.v * 255) \div Scale) % 256

\* np.ones(shape): the fourth band
Ones == [c \in 1..NOut |-> Num(Scale)]

ResampleInit ==
    /\ rpc = 0
    /\ img_arr \in [1..NSrc -> Pixels]
    /\ resample_params \in [1..NOut -> BilInfos]
    /\ bands = <<>>
    /\ nimg = <<>>

ResampleIdle ==
    /\ rpc = -1
    /\ img_arr = <<>>
    /\ resample_params = <<>>
    /\ bands = <<>>
    /\ nimg = <<>>

\* lines 137-142: one color band through get_sample_from_bil_info
ResampleBand ==
    /\ rpc \in 0..2
    /\ LET data == [i \in 1..NSrc |-> img_arr[i][rpc + 1]] IN
       bands' = Append(bands,
                       [c \in 1..NOut |-> Sample(data, resample_params[c])])
    /\ rpc' = rpc + 1
    /\ UNCHANGED <<img_arr, resample_params, nimg>>
    /\ UNCHANGED nonResampleVars

\* lines 136-145: stack the three bands and the ones, fill, scale, convert
StackAndConvert ==
    /\ rpc = 3
    /\ LET stacked == Append(bands, Ones) IN
       nimg' = [c \in 1..NOut |->
                   [b \in 1..4 |-> ToUint8(Filled(stacked[b][c]))]]
    /\ rpc' = 4
    /\ UNCHANGED <<img_arr, resample_params, bands>>
    /\ UNCHANGED nonResampleVars

ResampleNext ==
    \/ ResampleBand
    \/ StackAndConvert

(***************************************************************************)
(* process_sqs_event: the handler walks event['Records'], and in each the  *)
(* S3 records of the notification; a record whose key has the prefix goes  *)
(* through process_s3_file and save_s3.  The records are drawn as the      *)
(* loops reach them.  Nothing in the handler catches an exception.         *)
(***************************************************************************)
MaxEvents == 2
MaxErecs == 2
MaxRecs == 2

\* t is counted in ticks, as ds.t is in nanoseconds; utcfromtimestamp keeps
\* microseconds, of which the model has MicrosPerSec to the second
TicksPerMicro == 4
MicrosPerSec == 2
TicksPerSec == TicksPerMicro * MicrosPerSec

\* config.S3_PREFIX, and keys, as sequences of name parts
S3_PREFIX == <<"ABI", "L2", "MCMIPC">>
Shapes == {1, 2}

Objects ==
    { [key |-> S3_PREFIX \o <<"a">>, bucket |-> "noaa-goes17",
       platform_ID |-> "G17", t |-> 8, shape |-> 1, ok |-> TRUE],
      [key |-> S3_PREFIX \o <<"b">>, bucket |-> "noaa-goes17",
       platform_ID |-> "G17", t |-> 9, shape |-> 1, ok |-> TRUE],
      [key |-> S3_PREFIX \o <<"c">>, bucket |-> "noaa-goes16",
       platform_ID |-> "G16", t |-> 16, shape |-> 2, ok |-> TRUE],
      [key |-> <<"ABI", "L2", "MCMIPF", "d">>, bucket |-> "noaa-goes17",
       platform_ID |-> "G17", t |-> 24, shape |-> 1, ok |-> TRUE],
      [key |-> S3_PREFIX \o <<"e">>, bucket |-> "noaa-goes17",
       platform_ID |-> "G17", t |-> 32, shape |-> 2, ok |-> FALSE] }

NoRecord == [key |-> <<>>, bucket |-> "", platform_ID |-> "", t |-> 0,
             shape |-> 1, ok |-> FALSE]
NoDs == [platform_ID |-> "", t |-> 0, shape |-> 1, data |-> <<>>]
NoWeights == [shape |-> 0, radius |-> 0, neighbours |-> 0]
NoFile == <<>>
EmptyStore == [n \in {} |-> 0]

\* a test of the lengths alone
LongEnough(key, start) == Len(key) >= Len(start)

\* key.startswith(prefix)
StartsWith(key, start) ==
    /\ Len(key) >= Len(start)
    /\ SubSeq(key, 1, Len(start)) = start

\* open_file: the dataset of an object, subset to the corners
OpenFile(obj) ==
    [platform_ID |-> obj.platform_ID, t |-> obj.t, shape |-> obj.shape,
     data |-> obj.key]

\* make_resample_params: get_bil_info(goes_area, webm_area, 6e3, neighbours=8)
\* is a function of the dataset's grid alone
BilInfo(d) == [shape |-> d.shape, radius |-> 6000, neighbours |-> 8]

\* resample_image(resample_params, shape, make_geocolor_image(ds))
Image(d, w) == [data |-> d.data, grid |-> w.shape]

Digits == <<"0", "1", "2", "3", "4", "5", "6", "7", "8", "9">>

\* two decimal digits, zero-padded
Pad2(n) == <<Digits[(n \div Len(Digits)) + 1], Digits[(n % Len(Digits)) + 1]>>

\* n / d rounded to the nearest whole number, a half to the even one
RoundHalfEven(n, d) ==
    LET q == n \div d
        r == n % d
    IN  IF 2 * r < d THEN q
        ELSE IF 2 * r > d THEN q + 1
        ELSE IF q % 2 = 0 THEN q ELSE q + 1

\* a conversion that drops the fraction of the second
TruncSecond(t) == t \div TicksPerSec

\* utcfromtimestamp(t / 1e9) rounds to the microsecond; strftime's %S then
\* drops the microseconds
UtcSecond(t) == RoundHalfEven(t, TicksPerMicro) \div MicrosPerSec

\* make_img_filename: f'{platform_ID}_{date}.png'
MakeImgFilename(d) ==
    <<d.platform_ID, "_">> \o Pad2(UtcSecond(d.t)) \o <<".png">>

\* a save that leaves an existing object alone
PutIfAbsent(st, fn, c) ==
    IF fn \in DOMAIN st THEN st
    ELSE [n \in DOMAIN st \cup {fn} |-> IF n = fn THEN c ELSE st[n]]

\* fs.open(path, mode='wb') and save: the object is written, new or not
Put(st, fn, c) ==
    [n \in DOMAIN st \cup {fn} |-> IF n = fn THEN c ELSE st[n]]

\* a make_resample_params that keeps the weights of a shape it has seen
CountCached(runs, sh) ==
    IF runs[sh] > 0 THEN runs ELSE [runs EXCEPT ![sh] = @ + 1]

\* one more call of make_resample_params for a grid shape
CountRun(runs, sh) == [runs EXCEPT ![sh] = @ + 1]

LambdaInit ==
    /\ handler = "idle"
    /\ lpc = "idle"
    /\ nEvents = 0 /\ nErec = 0 /\ nRec = 0
    /\ record = NoRecord
    /\ ds = NoDs
    /\ weights = NoWeights
    /\ filename = NoFile
    /\ store = EmptyStore
    /\ firstWritten = EmptyStore
    /\ weightRuns = [sh \in Shapes |-> 0]
    /\ resampled = [sh \in Shapes |-> 0]

LambdaIdle ==
    /\ handler = "off"
    /\ lpc = "idle"
    /\ nEvents = 0 /\ nErec = 0 /\ nRec = 0
    /\ record = NoRecord
    /\ ds = NoDs
    /\ weights = NoWeights
    /\ filename = NoFile
    /\ store = EmptyStore
    /\ firstWritten = EmptyStore
    /\ weightRuns = [sh \in Shapes |-> 0]
    /\ resampled = [sh \in Shapes |-> 0]

\* the runtime calls process_sqs_event with an event
Invoke ==
    /\ handler \in {"idle", "returned", "raised"}
    /\ nEvents < MaxEvents
    /\ nEvents' = nEvents + 1
    /\ handler' = "running"
    /\ lpc' = "erec"
    /\ nErec' = 0 /\ nRec' = 0
    /\ record' = NoRecord /\ ds' = NoDs /\ weights' = NoWeights
    /\ filename' = NoFile
    /\ UNCHANGED <<store, firstWritten, weightRuns, resampled>>
    /\ UNCHANGED nonLambdaVars

\* line 203: the next of event['Records'], or the end of the event
NextErec ==
    /\ lpc = "erec"
    /\ \/ /\ nErec < MaxErecs
          /\ nErec' = nErec + 1
          /\ nRec' = 0
          /\ lpc' = "rec"
          /\ UNCHANGED handler
       \/ /\ lpc' = "idle"
          /\ handler' = "returned"
          /\ UNCHANGED <<nErec, nRec>>
    /\ UNCHANGED <<nEvents, record, ds, weights, filename, store,
                   firstWritten, weightRuns, resampled>>
    /\ UNCHANGED nonLambdaVars

\* lines 204-210: the next of rec['Records'], or the end of this message
NextRecord ==
    /\ lpc = "rec"
    /\ \/ /\ nRec < MaxRecs
          /\ \E obj \in Objects : record' = obj
          /\ nRec' = nRec + 1
          /\ lpc' = "filter"
       \/ /\ lpc' = "erec"
          /\ UNCHANGED <<record, nRec>>
    /\ UNCHANGED <<handler, nEvents, nErec, ds, weights, filename, store,
                   firstWritten, weightRuns, resampled>>
    /\ UNCHANGED nonLambdaVars

\* line 211: only a key with the prefix is processed
Filter ==
    /\ lpc = "filter"
    /\ lpc' = IF StartsWith(record.key, S3_PREFIX) THEN "open" ELSE "rec"
    /\ UNCHANGED <<handler, nEvents, nErec, nRec, record, ds, weights,
                   filename, store, firstWritten, weightRuns, resampled>>
    /\ UNCHANGED nonLambdaVars

\* lines 189-196: open the object and colorize it; a malformed one raises
OpenAndColor ==
    /\ lpc = "open"
    /\ IF record.ok
       THEN /\ ds' = OpenFile(record)
            /\ lpc' = "weights"
            /\ UNCHANGED handler
       ELSE /\ handler' = "raised"
            /\ lpc' = "idle"
            /\ UNCHANGED ds
    /\ UNCHANGED <<nEvents, nErec, nRec, record, weights, filename, store,
                   firstWritten, weightRuns, resampled>>
    /\ UNCHANGED nonLambdaVars

\* line 197: the weights are computed from this dataset
MakeResampleParams ==
    /\ lpc = "weights"
    /\ weights' = BilInfo(ds)
    /\ weightRuns' = CountRun(weightRuns, ds.shape)
    /\ lpc' = "resample"
    /\ UNCHANGED <<handler, nEvents, nErec, nRec, record, ds, filename,
                   store, firstWritten, resampled>>
    /\ UNCHANGED nonLambdaVars

\* lines 198-199: resample, and name the image
ResampleAndName ==
    /\ lpc = "resample"
    /\ resampled' = [resampled EXCEPT ![ds.shape] = @ + 1]
    /\ filename' = MakeImgFilename(ds)
    /\ lpc' = "save"
    /\ UNCHANGED <<handler, nEvents, nErec, nRec, record, ds, weights,
                   store, firstWritten, weightRuns>>
    /\ UNCHANGED nonLambdaVars

\* lines 182-185, 214: write the image to the bucket; the write may fail
SaveS3 ==
    /\ lpc = "save"
    /\ \/ /\ store' = Put(store, filename, Image(ds, weights))
          /\ firstWritten' =
                 PutIfAbsent(firstWritten, filename, Image(ds, weights))
          /\ lpc' = "rec"
          /\ UNCHANGED handler
       \/ /\ handler' = "raised"
          /\ lpc' = "idle"
          /\ UNCHANGED <<store, firstWritten>>
    /\ UNCHANGED <<nEvents, nErec, nRec, record, ds, weights, filename,
                   weightRuns, resampled>>
    /\ UNCHANGED nonLambdaVars

LambdaNext ==
    \/ Invoke
    \/ NextErec
    \/ NextRecord
    \/ Filter
    \/ OpenAndColor
    \/ MakeResampleParams
    \/ ResampleAndName
    \/ SaveS3

(***************************************************************************)
(* update_existing_file: read the metadata file, fetch the latest values,  *)
(* write them to a temporary file beside it and rename that into place.    *)
(* The command runs it again and again on its schedule.                    *)
(***************************************************************************)
MaxRuns == 3

\* what get_latest_data can return, as version numbers of the values
Versions == 1..3
\* what open() and json.dump can raise while the temporary file is written
WriteErrors == {"OSError", "ValueError"}
NoError == "none"
\* what "raise ()" raises: exceptions must derive from BaseException
RaiseTupleError == "TypeError"

MetaFile == "metadata.json"
TmpFile == "tmp"

\* line 108, "raise ()": a TypeError takes the place of the caught exception
RaiseTuple(e) == RaiseTupleError

MetaInit ==
    /\ mpc = "idle"
    /\ nRuns = 0
    /\ metadir = (MetaFile :> [content |-> <<0>>, mode |-> 420])
    /\ before = <<0>>
    /\ latest = <<>>
    /\ caught = NoError
    /\ raised = NoError

MetaIdle == MetaInit

\* lines 95-97: a run begins and reads the metadata file
ReadMeta ==
    /\ mpc \in {"idle", "returned", "raised"}
    /\ nRuns < MaxRuns
    /\ nRuns' = nRuns + 1
    /\ before' = metadir[MetaFile].content
    /\ latest' = <<>>
    /\ caught' = NoError
    /\ raised' = NoError
    /\ mpc' = "fetch"
    /\ UNCHANGED metadir
    /\ UNCHANGED nonMetaVars

\* lines 99-100: get_latest_data returns the values or a request fails
GetLatestData ==
    /\ mpc = "fetch"
    /\ \/ /\ \E v \in Versions : latest' = <<v>>
          /\ mpc' = "mkstemp"
          /\ UNCHANGED raised
       \/ /\ raised' = "HTTPError"
          /\ mpc' = "raised"
          /\ UNCHANGED latest
    /\ UNCHANGED <<nRuns, metadir, before, caught>>
    /\ UNCHANGED nonMetaVars

\* line 101: mkstemp creates an empty file, mode 0600, in the directory
MkStemp ==
    /\ mpc = "mkstemp"
    /\ metadir' = (TmpFile :> [content |-> <<>>, mode |-> 384]) @@ metadir
    /\ mpc' = "dump"
    /\ UNCHANGED <<nRuns, before, latest, caught, raised>>
    /\ UNCHANGED nonMetaVars

\* lines 103-105: json.dump writes the values, or fails with part written
Dump ==
    /\ mpc = "dump"
    /\ \/ /\ metadir' = [metadir EXCEPT ![TmpFile].content = latest]
          /\ mpc' = "else"
          /\ UNCHANGED caught
       \/ /\ metadir' =
                 [metadir EXCEPT ![TmpFile].content = <<"partial">>]
          /\ \E e \in WriteErrors : caught' = e
          /\ mpc' = "except"
    /\ UNCHANGED <<nRuns, before, latest, raised>>
    /\ UNCHANGED nonMetaVars

\* lines 106-108: the temporary file is unlinked, then "raise ()"
Except ==
    /\ mpc = "except"
    /\ metadir' = [n \in DOMAIN metadir \ {TmpFile} |-> metadir[n]]
    /\ raised' = RaiseTuple(caught)
    /\ mpc' = "raised"
    /\ UNCHANGED <<nRuns, before, latest, caught>>
    /\ UNCHANGED nonMetaVars

\* lines 109-111: chmod 0o644, then rename onto the metadata file
ChmodRename ==
    /\ mpc = "else"
    /\ metadir' =
          [n \in DOMAIN metadir \ {TmpFile} |->
              [content |-> metadir[TmpFile].content, mode |-> 420]]
    /\ mpc' = "returned"
    /\ UNCHANGED <<nRuns, before, latest, caught, raised>>
    /\ UNCHANGED nonMetaVars

MetaNext ==
    \/ ReadMeta
    \/ GetLatestData
    \/ MkStemp
    \/ Dump
    \/ Except
    \/ ChmodRename

(***************************************************************************)
(* Queue mode.  cli.process_files hands the queue's URL and the save       *)
(* directory to get_process_and_save, whose code is not in src/; the       *)
(* coordinator below follows the design's state machine                    *)
(*   RECEIVED -> LEASED (heartbeat running) -> PIPELINE_RUNNING -> ACKED   *)
(* The heartbeat runs beside the blocking pipeline call, renews the lease  *)
(* at half the lease duration and shares only the stop flag with the main  *)
(* flow, which sets the flag and cancels the heartbeat before it deletes   *)
(* the message, and deletes the message only when the pipeline returned.   *)
(* Time is counted in ticks from the receipt of the message; a heartbeat   *)
(* that is due runs at most MaxJitter ticks late.                          *)
(***************************************************************************)
NMsgs == 2
MaxDeliveries == 3
MaxTime == 6
MaxJitter == 1

\* the queue's lease (visibility timeout), in ticks
LeaseTime == 4

\* a heartbeat that renews only once per whole lease
RenewEveryLease == LeaseTime

\* the lease is renewed at half the lease duration
RenewEvery == LeaseTime \div 2

Msgs == 1..NMsgs

\* a teardown that acknowledges whatever the pipeline did
DeleteAlways(res) == TRUE

\* the message is deleted only when the pipeline completed without error
DeleteAfter(res) == res = "ok"

\* the heartbeat renews only while the stop flag is clear
MayRenew(flag) == ~flag

QueueInit ==
    /\ qpc = "receive"
    /\ msgs = [m \in Msgs |-> "visible"]
    /\ unit = 1
    /\ stopFlag = FALSE
    /\ heartbeat = "none"
    /\ now = 0
    /\ renewDue = 0
    /\ leaseUntil = 0
    /\ startedAt = 0
    /\ outcome = [m \in Msgs |-> "none"]
    /\ deliveries = 0
    /\ duration = 0
    /\ renewals = 0
    /\ lateRenewals = 0

QueueIdle == QueueInit

\* RECEIVED: a visible message is received and a LeaseHandle made for it
\* (the heartbeat of the unit before, its flag set, has ended by then)
Receive ==
    /\ qpc = "receive"
    /\ heartbeat # "running"
    /\ deliveries < MaxDeliveries
    /\ \E m \in Msgs :
          /\ msgs[m] = "visible"
          /\ unit' = m
          /\ msgs' = [msgs EXCEPT ![m] = "inflight"]
          /\ outcome' = [outcome EXCEPT ![m] = "none"]
    /\ deliveries' = deliveries + 1
    /\ duration' = 0
    /\ renewals' = 0
    /\ now' = 0
    /\ leaseUntil' = LeaseTime
    /\ stopFlag' = FALSE
    /\ heartbeat' = "none"
    /\ renewDue' = 0
    /\ startedAt' = 0
    /\ qpc' = "leased"
    /\ UNCHANGED lateRenewals
    /\ UNCHANGED nonQueueVars

\* LEASED: the heartbeat task is started
StartHeartbeat ==
    /\ qpc = "leased"
    /\ heartbeat = "none"
    /\ heartbeat' = "running"
    /\ renewDue' = now + RenewEvery
    /\ UNCHANGED <<qpc, msgs, unit, stopFlag, now, leaseUntil, startedAt,
                   outcome, deliveries, duration, renewals, lateRenewals>>
    /\ UNCHANGED nonQueueVars

\* PIPELINE_RUNNING: the blocking pipeline call begins
StartPipeline ==
    /\ qpc = "leased"
    /\ heartbeat = "running"
    /\ startedAt' = now
    /\ outcome' = [outcome EXCEPT ![unit] = "running"]
    /\ qpc' = "running"
    /\ UNCHANGED <<msgs, unit, stopFlag, heartbeat, now, renewDue,
                   leaseUntil, deliveries, duration, renewals, lateRenewals>>
    /\ UNCHANGED nonQueueVars

\* time passes, unless a renewal is overdue
Tick ==
    /\ qpc \in {"leased", "running", "finished"}
    /\ now < MaxTime
    /\ ~(heartbeat = "running" /\ MayRenew(stopFlag)
           /\ now >= renewDue + MaxJitter)
    /\ now' = now + 1
    /\ UNCHANGED <<qpc, msgs, unit, stopFlag, heartbeat, renewDue,
                   leaseUntil, startedAt, outcome, deliveries, duration,
                   renewals, lateRenewals>>
    /\ UNCHANGED nonQueueVars

\* the heartbeat wakes and renews the lease (change-message-visibility)
Renew ==
    /\ heartbeat = "running"
    /\ MayRenew(stopFlag)
    /\ now >= renewDue
    /\ leaseUntil' = now + LeaseTime
    /\ renewDue' = now + RenewEvery
    /\ IF msgs[unit] = "deleted"
       THEN /\ lateRenewals' = lateRenewals + 1
            /\ UNCHANGED renewals
       ELSE /\ renewals' = renewals + 1
            /\ UNCHANGED lateRenewals
    /\ UNCHANGED <<qpc, msgs, unit, stopFlag, heartbeat, now, startedAt,
                   outcome, deliveries, duration>>
    /\ UNCHANGED nonQueueVars

\* the heartbeat wakes, finds the flag set and ends
HeartbeatEnds ==
    /\ heartbeat = "running"
    /\ stopFlag
    /\ heartbeat' = "ended"
    /\ UNCHANGED <<qpc, msgs, unit, stopFlag, now, renewDue, leaseUntil,
                   startedAt, outcome, deliveries, duration, renewals,
                   lateRenewals>>
    /\ UNCHANGED nonQueueVars

\* the pipeline call returns, or raises
PipelineEnds ==
    /\ qpc = "running"
    /\ \E res \in {"ok", "raised"} :
          outcome' = [outcome EXCEPT ![unit] = res]
    /\ duration' = now - startedAt
    /\ qpc' = "finished"
    /\ UNCHANGED <<msgs, unit, stopFlag, heartbeat, now, renewDue,
                   leaseUntil, startedAt, deliveries, renewals,
                   lateRenewals>>
    /\ UNCHANGED nonQueueVars

\* on every path the main flow sets the flag and cancels the heartbeat;
\* the cancel is best effort: a heartbeat it misses ends at the flag
StopHeartbeat ==
    /\ qpc = "finished"
    /\ stopFlag' = TRUE
    /\ \/ heartbeat' = "ended"
       \/ UNCHANGED heartbeat
    /\ qpc' = "stopped"
    /\ UNCHANGED <<msgs, unit, now, renewDue, leaseUntil, startedAt,
                   outcome, deliveries, duration, renewals, lateRenewals>>
    /\ UNCHANGED nonQueueVars

\* ACKED: the message is deleted; after an error it is left on the queue
\* and becomes visible again for redelivery
Teardown ==
    /\ qpc = "stopped"
    /\ msgs' = [msgs EXCEPT ![unit] =
                    IF DeleteAfter(outcome[unit]) THEN "deleted"
                    ELSE "visible"]
    /\ qpc' = "receive"
    /\ now' = 0 /\ renewDue' = 0 /\ leaseUntil' = 0 /\ startedAt' = 0
    /\ UNCHANGED <<unit, stopFlag, heartbeat, outcome, deliveries, duration,
                   renewals, lateRenewals>>
    /\ UNCHANGED nonQueueVars

QueueNext ==
    \/ Receive
    \/ StartHeartbeat
    \/ StartPipeline
    \/ Tick
    \/ Renew
    \/ HeartbeatEnds
    \/ PipelineEnds
    \/ StopHeartbeat
    \/ Teardown

(***************************************************************************)
(* Poll mode, from the design (its code is not in src/).  An invocation    *)
(* lists the bucket and, for each candidate, derives its last-modified     *)
(* stamp, skips it if a LockMarker of that stamp exists, and otherwise     *)
(* creates the marker, runs the pipeline and removes the marker.  A        *)
(* pipeline that raises ends the invocation and leaves its marker behind.  *)
(* Invocations are serialized: one begins only when the last has ended.    *)
(***************************************************************************)
NStamps == 3
MaxPolls == 3
MaxCands == 2

Stamps == 1..NStamps

\* a poller that never looks for the marker
NeverSkip(exists) == FALSE

\* skip the candidate if a LockMarker for its stamp exists
SkipCandidate(exists) == exists

PollInit ==
    /\ ppc = "idle"
    /\ markers = {}
    /\ cand = 1
    /\ nPolls = 0
    /\ nCands = 0
    /\ result = "none"
    /\ hadMarker = FALSE

PollIdle == PollInit

\* an invocation begins and lists the bucket
PollStart ==
    /\ ppc = "idle"
    /\ nPolls < MaxPolls
    /\ nPolls' = nPolls + 1
    /\ nCands' = 0
    /\ ppc' = "list"
    /\ UNCHANGED <<markers, cand, result, hadMarker>>
    /\ UNCHANGED nonPollVars

\* the next candidate of the listing, or the end of the invocation
NextCandidate ==
    /\ ppc = "list"
    /\ \/ /\ nCands < MaxCands
          /\ \E ts \in Stamps : cand' = ts
          /\ nCands' = nCands + 1
          /\ result' = "none"
          /\ ppc' = "check"
       \/ /\ ppc' = "idle"
          /\ UNCHANGED <<cand, nCands, result>>
    /\ UNCHANGED <<markers, nPolls, hadMarker>>
    /\ UNCHANGED nonPollVars

\* skip if a LockMarker for the candidate's stamp exists
CheckMarker ==
    /\ ppc = "check"
    /\ hadMarker' = (cand \in markers)
    /\ ppc' = IF SkipCandidate(cand \in markers) THEN "list" ELSE "touch"
    /\ UNCHANGED <<markers, cand, nPolls, nCands, result>>
    /\ UNCHANGED nonPollVars

\* otherwise create the marker
TouchMarker ==
    /\ ppc = "touch"
    /\ markers' = markers \cup {cand}
    /\ ppc' = "pipeline"
    /\ UNCHANGED <<cand, nPolls, nCands, result, hadMarker>>
    /\ UNCHANGED nonPollVars

\* run the full pipeline: it returns, or raises and ends the invocation
RunPipeline ==
    /\ ppc = "pipeline"
    /\ \/ result' = "ok" /\ ppc' = "unlink"
       \/ result' = "raised" /\ ppc' = "idle"
    /\ UNCHANGED <<markers, cand, nPolls, nCands, hadMarker>>
    /\ UNCHANGED nonPollVars

\* remove the marker when done
UnlinkMarker ==
    /\ ppc = "unlink"
    /\ markers' = markers \ {cand}
    /\ ppc' = "list"
    /\ UNCHANGED <<cand, nPolls, nCands, result, hadMarker>>
    /\ UNCHANGED nonPollVars

PollNext ==
    \/ PollStart
    \/ NextCandidate
    \/ CheckMarker
    \/ TouchMarker
    \/ RunPipeline
    \/ UnlinkMarker

(***************************************************************************)
(* The retention sweeper, from the design (its code is not in src/).  A    *)
(* sweep scans the output directory, parses the timestamp embedded in each *)
(* name and deletes the names whose age exceeds the threshold; a name that  *)
(* does not parse is logged and skipped.  Time is counted in hours and the *)
(* embedded timestamp is a two-digit hour count.                           *)
(***************************************************************************)
MaxFiles == 4

DefaultRetention == 24

Unparsed == -1

DigitValue ==
    [c \in {"0", "1", "2", "3", "4", "5", "6", "7", "8", "9"} |->
        CASE c = "0" -> 0 [] c = "1" -> 1 [] c = "2" -> 2 [] c = "3" -> 3
          [] c = "4" -> 4 [] c = "5" -> 5 [] c = "6" -> 6 [] c = "7" -> 7
          [] c = "8" -> 8 [] c = "9" -> 9]

\* the timestamp embedded in a name, or Unparsed
ParseStamp(name) ==
    IF Len(name) = 2 /\ \A i \in 1..Len(name) : name[i] \in DOMAIN DigitValue
    THEN 10 * DigitValue[name[1]] + DigitValue[name[2]]
    ELSE Unparsed

\* a sweeper that also deletes at exactly the threshold
ExpiredAtThreshold(age, threshold) == age >= threshold

\* the age exceeds the threshold
Expired(age, threshold) == age > threshold

Names ==
    { <<"3", "0">>, <<"2", "9">>, <<"0", "7">>, <<"0", "6">>, <<"0", "5">>,
      <<"0", "0">>, <<"0", "x">>, <<"5">> }

Nows == {30, 31}

MaxAges == {DefaultRetention, 1}

SweepInit ==
    /\ spc = "idle"
    /\ \E d \in SUBSET Names : Cardinality(d) <= MaxFiles /\ outdir = d
    /\ dir0 = outdir
    /\ todo = {}
    /\ fname = <<>>
    /\ stamp = Unparsed
    /\ swnow \in Nows
    /\ max_age \in MaxAges
    /\ logged = {}

SweepIdle ==
    /\ spc = "off"
    /\ outdir = {}
    /\ dir0 = {}
    /\ todo = {}
    /\ fname = <<>>
    /\ stamp = Unparsed
    /\ swnow = 0
    /\ max_age = DefaultRetention
    /\ logged = {}

\* scan the output directory
ScanDir ==
    /\ spc = "idle"
    /\ todo' = outdir
    /\ spc' = "scan"
    /\ UNCHANGED <<outdir, dir0, fname, stamp, swnow, max_age, logged>>
    /\ UNCHANGED nonSweepVars

\* parse the timestamp embedded in the next name
ParseName ==
    /\ spc = "scan"
    /\ \E f \in todo :
        /\ fname' = f
        /\ todo' = todo \ {f}
        /\ stamp' = ParseStamp(f)
    /\ spc' = "parsed"
    /\ UNCHANGED <<outdir, dir0, swnow, max_age, logged>>
    /\ UNCHANGED nonSweepVars

\* a name that does not parse is logged and skipped
LogUnparsed ==
    /\ spc = "parsed"
    /\ stamp = Unparsed
    /\ logged' = logged \cup {fname}
    /\ spc' = "scan"
    /\ UNCHANGED <<outdir, dir0, todo, fname, stamp, swnow, max_age>>
    /\ UNCHANGED nonSweepVars

\* delete a name whose age exceeds the threshold
DeleteExpired ==
    /\ spc = "parsed"
    /\ stamp # Unparsed
    /\ Expired(swnow - stamp, max_age)
    /\ outdir' = outdir \ {fname}
    /\ spc' = "scan"
    /\ UNCHANGED <<dir0, todo, fname, stamp, swnow, max_age, logged>>
    /\ UNCHANGED nonSweepVars

\* keep the others
KeepFile ==
    /\ spc = "parsed"
    /\ stamp # Unparsed
    /\ ~Expired(swnow - stamp, max_age)
    /\ spc' = "scan"
    /\ UNCHANGED <<outdir, dir0, todo, fname, stamp, swnow, max_age, logged>>
    /\ UNCHANGED nonSweepVars

\* the scan is through
SweepEnd ==
    /\ spc = "scan"
    /\ todo = {}
    /\ spc' = "done"
    /\ UNCHANGED <<outdir, dir0, todo, fname, stamp, swnow, max_age, logged>>
    /\ UNCHANGED nonSweepVars

SweepNext ==
    \/ ScanDir
    \/ ParseName
    \/ LogUnparsed
    \/ DeleteExpired
    \/ KeepFile
    \/ SweepEnd

(***************************************************************************)
(* filter_sqs.lambda_handler: the handler walks the event as               *)
(* process_sqs_event does, collects one queue entry per record whose key   *)
(* has the prefix, and sends the entries in one batch if there are any.    *)
(* The records are drawn as the loops reach them.                          *)
(***************************************************************************)
\* filter_sqs.S3_PREFIX, as a sequence of name parts
FilterS3_PREFIX == <<"ABI", "L2", "MCMIPF">>

FwdRecords ==
    { [bucket |-> "noaa-goes17", key |-> FilterS3_PREFIX \o <<"d">>],
      [bucket |-> "noaa-goes16", key |-> FilterS3_PREFIX \o <<"f">>],
      [bucket |-> "noaa-goes17", key |-> S3_PREFIX \o <<"a">>] }

\* str(i), as the sequence of its decimal digits
RECURSIVE Str(_)
Str(n) ==
    IF n < Len(Digits) THEN <<Digits[n + 1]>>
    ELSE Str(n \div Len(Digits)) \o <<Digits[(n % Len(Digits)) + 1]>>

\* f'{bucket}:{key}'
Body(bucket, key) == <<bucket, ":">> \o key

\* a counter that is never advanced
SameId(n) == n

\* i += 1
NextId(n) == n + 1

ForwardInit ==
    /\ fpc = "idle"
    /\ fnErec = 0 /\ fnRec = 0
    /\ entries = <<>>
    /\ entry_i = 0
    /\ fseen = <<>>
    /\ sendCalls = <<>>
    /\ statusCode = 0

ForwardIdle ==
    /\ fpc = "off"
    /\ fnErec = 0 /\ fnRec = 0
    /\ entries = <<>>
    /\ entry_i = 0
    /\ fseen = <<>>
    /\ sendCalls = <<>>
    /\ statusCode = 0

\* lines 14-17: the runtime calls the handler with an event
FwdInvoke ==
    /\ fpc = "idle"
    /\ entries' = <<>>
    /\ entry_i' = 1
    /\ fpc' = "erec"
    /\ UNCHANGED <<fnErec, fnRec, fseen, sendCalls, statusCode>>
    /\ UNCHANGED nonForwardVars

\* lines 18-20: the next of event['Records'], or the end of the loop
FwdNextErec ==
    /\ fpc = "erec"
    /\ \/ /\ fnErec < MaxErecs
          /\ fnErec' = fnErec + 1
          /\ fnRec' = 0
          /\ fpc' = "rec"
       \/ /\ fpc' = "send"
          /\ UNCHANGED <<fnErec, fnRec>>
    /\ UNCHANGED <<entries, entry_i, fseen, sendCalls, statusCode>>
    /\ UNCHANGED nonForwardVars

\* lines 21-28: the next of rec['Records'] and its entry, or the end of
\* this message
FwdNextRecord ==
    /\ fpc = "rec"
    /\ \/ /\ fnRec < MaxRecs
          /\ \E rec \in FwdRecords :
                /\ fseen' = Append(fseen, rec)
                /\ IF StartsWith(rec.key, FilterS3_PREFIX)
                   THEN /\ entries' =
                              Append(entries,
                                     [Id |-> Str(entry_i),
                                      MessageBody |->
                                          Body(rec.bucket, rec.key)])
                        /\ entry_i' = NextId(entry_i)
                   ELSE UNCHANGED <<entries, entry_i>>
          /\ fnRec' = fnRec + 1
          /\ UNCHANGED fpc
       \/ /\ fpc' = "erec"
          /\ UNCHANGED <<fnRec, entries, entry_i, fseen>>
    /\ UNCHANGED <<fnErec, sendCalls, statusCode>>
    /\ UNCHANGED nonForwardVars

\* lines 29-30: the entries go to the queue in one call, which may raise
FwdSend ==
    /\ fpc = "send"
    /\ entries # <<>>
    /\ sendCalls' = Append(sendCalls, entries)
    /\ \/ fpc' = "respond"
       \/ fpc' = "raised"
    /\ UNCHANGED <<fnErec, fnRec, entries, entry_i, fseen, statusCode>>
    /\ UNCHANGED nonForwardVars

\* lines 31-32: nothing to send
FwdNothing ==
    /\ fpc = "send"
    /\ entries = <<>>
    /\ fpc' = "respond"
    /\ UNCHANGED <<fnErec, fnRec, entries, entry_i, fseen, sendCalls,
                   statusCode>>
    /\ UNCHANGED nonForwardVars

\* lines 33-36
FwdReturn ==
    /\ fpc = "respond"
    /\ statusCode' = 200
    /\ fpc' = "returned"
    /\ UNCHANGED <<fnErec, fnRec, entries, entry_i, fseen, sendCalls>>
    /\ UNCHANGED nonForwardVars

ForwardNext ==
    \/ FwdInvoke
    \/ FwdNextErec
    \/ FwdNextRecord
    \/ FwdSend
    \/ FwdNothing
    \/ FwdReturn

(***************************************************************************)
(* get_s3_keys: the generator lists the bucket page by page under the      *)
(* prefix, extended by the hour of the timestamp if one is given, and      *)
(* yields the keys that start with the prefix.  The service answers a      *)
(* request with the next keys that start with the request's Prefix, and a  *)
(* NextContinuationToken if more remain.  Strings are sequences of parts,  *)
(* "/" being a part of its own.                                            *)
(***************************************************************************)
MaxKeys == 2

HoursPerDay == 24

NoTimestamp == -1
NoToken == 0

\* timestamp.strftime('%Y/%j/%H'): the day, a slash, the hour of the day
Strftime(h) == Str(h \div HoursPerDay) \o <<"/">> \o Pad2(h % HoursPerDay)

\* a key of the source bucket: product/day/hour/name
BucketKey(product, h, name) ==
    product \o <<"/">> \o Strftime(h) \o <<"/", name>>

\* the keys a bucket may hold, in listing order
AllKeys ==
    << BucketKey(S3_PREFIX, HoursPerDay - 1, "a"),
       BucketKey(S3_PREFIX, HoursPerDay - 1, "b"),
       BucketKey(S3_PREFIX, HoursPerDay, "a"),
       BucketKey(S3_PREFIX, HoursPerDay, "b"),
       BucketKey(FilterS3_PREFIX, HoursPerDay, "a") >>

Prefixes == {S3_PREFIX, S3_PREFIX \o <<"/">>, <<"ABI">>}
Timestamps == {NoTimestamp, HoursPerDay}

NoResp == [KeyCount |-> 0, Contents |-> <<>>, NextContinuationToken |-> NoToken]

\* list_objects_v2 of the service: the keys under Prefix after the token,
\* at most n of them, and a token if more remain
ListObjectsV2(keys, kw, n) ==
    LET under == SelectSeq(keys, LAMBDA k : StartsWith(k, kw.Prefix))
        first == kw.ContinuationToken + 1
        last == Min(kw.ContinuationToken + n, Len(under))
    IN  [KeyCount |-> last - first + 1,
         Contents |-> SubSeq(under, first, last),
         NextContinuationToken |-> IF last < Len(under) THEN last ELSE NoToken]

\* a generator that asks for the first page again
DropToken(tok) == NoToken

\* kwargs["ContinuationToken"] = resp["NextContinuationToken"]
PassToken(tok) == tok

ListInit ==
    /\ kpc = "idle"
    /\ \E chosen \in SUBSET (1..Len(AllKeys)) :
        s3keys = SelectSeq(AllKeys,
                           LAMBDA k : \E c \in chosen : AllKeys[c] = k)
    /\ prefix \in Prefixes
    /\ timestamp \in Timestamps
    /\ max_keys \in 1..MaxKeys
    /\ kwargs = [Prefix |-> <<>>, ContinuationToken |-> NoToken]
    /\ resp = NoResp
    /\ objIdx = 0
    /\ yielded = <<>>
    /\ pages = <<>>
    /\ requests = <<>>

ListIdle ==
    /\ kpc = "off"
    /\ s3keys = <<>>
    /\ prefix = <<>>
    /\ timestamp = NoTimestamp
    /\ max_keys = 1
    /\ kwargs = [Prefix |-> <<>>, ContinuationToken |-> NoToken]
    /\ resp = NoResp
    /\ objIdx = 0
    /\ yielded = <<>>
    /\ pages = <<>>
    /\ requests = <<>>

\* lines 160-165: the Prefix of the request
BuildKwargs ==
    /\ kpc = "idle"
    /\ kwargs' = [Prefix |-> IF timestamp # NoTimestamp
                             THEN prefix \o Strftime(timestamp)
                             ELSE prefix,
                  ContinuationToken |-> NoToken]
    /\ kpc' = "request"
    /\ UNCHANGED <<s3keys, prefix, timestamp, max_keys, resp, objIdx,
                   yielded, pages, requests>>
    /\ UNCHANGED nonListVars

\* line 168: one request
ListObjects ==
    /\ kpc = "request"
    /\ resp' = ListObjectsV2(s3keys, kwargs, max_keys)
    /\ pages' = Append(pages, resp')
    /\ requests' = Append(requests, kwargs.ContinuationToken)
    /\ kpc' = "count"
    /\ UNCHANGED <<s3keys, prefix, timestamp, max_keys, kwargs, objIdx,
                   yielded>>
    /\ UNCHANGED nonListVars

\* lines 169-170: an empty page ends the generator
CheckKeyCount ==
    /\ kpc = "count"
    /\ IF resp.KeyCount = 0
       THEN kpc' = "done" /\ UNCHANGED objIdx
       ELSE kpc' = "contents" /\ objIdx' = 1
    /\ UNCHANGED <<s3keys, prefix, timestamp, max_keys, kwargs, resp,
                   yielded, pages, requests>>
    /\ UNCHANGED nonListVars

\* lines 171-174: the next object of the page; its key is yielded if it
\* starts with the prefix
NextObj ==
    /\ kpc = "contents"
    /\ IF objIdx <= Len(resp.Contents)
       THEN /\ yielded' =
                 IF StartsWith(resp.Contents[objIdx], prefix)
                 THEN Append(yielded, resp.Contents[objIdx])
                 ELSE yielded
            /\ objIdx' = objIdx + 1
            /\ UNCHANGED kpc
       ELSE /\ kpc' = "token"
            /\ UNCHANGED <<yielded, objIdx>>
    /\ UNCHANGED <<s3keys, prefix, timestamp, max_keys, kwargs, resp,
                   pages, requests>>
    /\ UNCHANGED nonListVars

\* lines 176-179: go on with the page's token, or end without one
NextToken ==
    /\ kpc = "token"
    /\ IF resp.NextContinuationToken # NoToken
       THEN /\ kwargs' =
                 [kwargs EXCEPT !.ContinuationToken =
                                    PassToken(resp.NextContinuationToken)]
            /\ kpc' = "request"
       ELSE /\ kpc' = "done"
            /\ UNCHANGED kwargs
    /\ UNCHANGED <<s3keys, prefix, timestamp, max_keys, resp, objIdx,
                   yielded, pages, requests>>
    /\ UNCHANGED nonListVars

ListNext ==
    \/ BuildKwargs
    \/ ListObjects
    \/ CheckKeyCount
    \/ NextObj
    \/ NextToken

(***************************************************************************)
(* make_img_filename, called for two units drawn from the platforms and    *)
(* the acquisition times up to MaxT ticks.                                 *)
(***************************************************************************)
MaxT == 16

Platforms == {"G16", "G17"}

Units == [platform_ID : Platforms, t : 0..MaxT]

NameInit ==
    /\ npc = "idle"
    /\ unitA \in Units
    /\ unitB \in Units
    /\ nameA = <<>>
    /\ nameB = <<>>

NameIdle ==
    /\ npc = "off"
    /\ unitA = [platform_ID |-> "G16", t |-> 0]
    /\ unitB = [platform_ID |-> "G16", t |-> 0]
    /\ nameA = <<>>
    /\ nameB = <<>>

\* the filename of the first unit
NameFirst ==
    /\ npc = "idle"
    /\ nameA' = MakeImgFilename(unitA)
    /\ npc' = "first"
    /\ UNCHANGED <<unitA, unitB, nameB>>
    /\ UNCHANGED nonNameVars

\* the filename of the second unit
NameSecond ==
    /\ npc = "first"
    /\ nameB' = MakeImgFilename(unitB)
    /\ npc' = "done"
    /\ UNCHANGED <<unitA, unitB, nameA>>
    /\ UNCHANGED nonNameVars

NameNext ==
    \/ NameFirst
    \/ NameSecond

(***************************************************************************)
(* run_loop: without a schedule the work function is called once; with one *)
(* run_loop takes each time run_times yields, sleeps until then, submits   *)
(* the work function to a pool of one process and waits for its result.    *)
(* run_times yields the schedule's next time if it is still ahead.  The    *)
(* clock may advance between any two steps.  silent_exit swallows only     *)
(* SystemExit and KeyboardInterrupt.                                       *)
(***************************************************************************)
MaxClock == 6

CronPeriod == 2

NoCron == 0
NoTime == -1

Outcomes == {"returned", "raised", "exit"}

\* iter.get_next: the first scheduled time after the last
GetNextTime(last, period) == ((last \div period) + 1) * period

\* a generator that yields every scheduled time
DueAlways(t, now_) == TRUE

\* line 144: next_time > _now(cron_tz)
Due(t, now_) == t > now_

\* a loop that goes on without the result
ProceedAlways(state) == TRUE

\* fut.result() and the pool's shutdown block while the call runs
MayProceed(state) == state # "running"

CronInit ==
    /\ cpc = "idle"
    /\ cron \in {NoCron, CronPeriod}
    /\ clock \in {0, 1}
    /\ iterLast = NoTime
    /\ next_time = NoTime
    /\ rt = NoTime
    /\ sleep_length = 0
    /\ wakeAt = NoTime
    /\ child = "none"
    /\ inFlight = 0
    /\ drawnAt = NoTime
    /\ runStart = NoTime
    /\ prevRt = NoTime
    /\ prevEnd = NoTime
    /\ skipped = {}

CronIdle ==
    /\ cpc = "off"
    /\ cron = NoCron
    /\ clock = 0
    /\ iterLast = NoTime
    /\ next_time = NoTime
    /\ rt = NoTime
    /\ sleep_length = 0
    /\ wakeAt = NoTime
    /\ child = "none"
    /\ inFlight = 0
    /\ drawnAt = NoTime
    /\ runStart = NoTime
    /\ prevRt = NoTime
    /\ prevEnd = NoTime
    /\ skipped = {}

\* time passes
ClockTick ==
    /\ cpc \notin {"off", "returned", "crashed", "exited"}
    /\ clock < MaxClock
    /\ clock' = clock + 1
    /\ UNCHANGED <<cpc, cron, iterLast, next_time, rt, sleep_length, wakeAt,
                   child, inFlight, drawnAt, runStart, prevRt, prevEnd,
                   skipped>>
    /\ UNCHANGED nonCronVars

\* lines 163-165, 140-141: the call of run_loop; with a schedule, the
\* iterator starts at the present time
RunLoop ==
    /\ cpc = "idle"
    /\ IF cron = NoCron
       THEN /\ cpc' = "direct"
            /\ inFlight' = inFlight + 1
            /\ runStart' = clock
            /\ UNCHANGED iterLast
       ELSE /\ cpc' = "next"
            /\ iterLast' = clock
            /\ UNCHANGED <<inFlight, runStart>>
    /\ UNCHANGED <<cron, clock, next_time, rt, sleep_length, wakeAt, child,
                   drawnAt, prevRt, prevEnd, skipped>>
    /\ UNCHANGED nonCronVars

\* lines 164, 151-156: the one call without a schedule returns or raises
DirectEnds ==
    /\ cpc = "direct"
    /\ \E o \in Outcomes :
        /\ child' = o
        /\ cpc' = CASE o = "returned" -> "returned"
                    [] o = "raised" -> "crashed"
                    [] o = "exit" -> "exited"
    /\ inFlight' = inFlight - 1
    /\ prevEnd' = clock
    /\ UNCHANGED <<cron, clock, iterLast, next_time, rt, sleep_length,
                   wakeAt, drawnAt, runStart, prevRt, skipped>>
    /\ UNCHANGED nonCronVars

\* line 143: the schedule's next time
GetNext ==
    /\ cpc = "next"
    /\ next_time' = GetNextTime(iterLast, cron)
    /\ iterLast' = next_time'
    /\ cpc' = "check"
    /\ UNCHANGED <<cron, clock, rt, sleep_length, wakeAt, child, inFlight,
                   drawnAt, runStart, prevRt, prevEnd, skipped>>
    /\ UNCHANGED nonCronVars

\* lines 144-145: it is yielded if it is still ahead
CheckDue ==
    /\ cpc = "check"
    /\ IF Due(next_time, clock)
       THEN /\ rt' = next_time
            /\ prevRt' = rt
            /\ drawnAt' = clock
            /\ cpc' = "sleeplen"
            /\ UNCHANGED skipped
       ELSE /\ skipped' = skipped \cup {next_time}
            /\ cpc' = "next"
            /\ UNCHANGED <<rt, prevRt, drawnAt>>
    /\ UNCHANGED <<cron, clock, iterLast, next_time, sleep_length, wakeAt,
                   child, inFlight, runStart, prevEnd>>
    /\ UNCHANGED nonCronVars

\* lines 166-168: how long to sleep
SleepLength ==
    /\ cpc = "sleeplen"
    /\ sleep_length' = rt - clock
    /\ wakeAt' = clock + sleep_length'
    /\ cpc' = IF sleep_length' > 0 THEN "sleep" ELSE "submit"
    /\ UNCHANGED <<cron, clock, iterLast, next_time, rt, child, inFlight,
                   drawnAt, runStart, prevRt, prevEnd, skipped>>
    /\ UNCHANGED nonCronVars

\* line 169: time.sleep returns no sooner than asked
Wake ==
    /\ cpc = "sleep"
    /\ clock >= wakeAt
    /\ cpc' = "submit"
    /\ UNCHANGED <<cron, clock, iterLast, next_time, rt, sleep_length,
                   wakeAt, child, inFlight, drawnAt, runStart, prevRt,
                   prevEnd, skipped>>
    /\ UNCHANGED nonCronVars

\* lines 170-171: the work function is submitted to a new pool
Submit ==
    /\ cpc = "submit"
    /\ child' = "running"
    /\ inFlight' = inFlight + 1
    /\ runStart' = clock
    /\ cpc' = "result"
    /\ UNCHANGED <<cron, clock, iterLast, next_time, rt, sleep_length,
                   wakeAt, drawnAt, prevRt, prevEnd, skipped>>
    /\ UNCHANGED nonCronVars

\* the work function returns or raises in the pool's process
ChildEnds ==
    /\ child = "running"
    /\ inFlight > 0
    /\ \E o \in Outcomes : child' = o
    /\ inFlight' = inFlight - 1
    /\ prevEnd' = clock
    /\ UNCHANGED <<cpc, cron, clock, iterLast, next_time, rt, sleep_length,
                   wakeAt, drawnAt, runStart, prevRt, skipped>>
    /\ UNCHANGED nonCronVars

\* lines 172, 151-156: the result; an exception of the call is raised
\* again here and ends the loop, through silent_exit unless it is a
\* SystemExit
Result ==
    /\ cpc = "result"
    /\ MayProceed(child)
    /\ cpc' = CASE child = "raised" -> "crashed"
                [] child = "exit" -> "exited"
                [] OTHER -> "next"
    /\ UNCHANGED <<cron, clock, iterLast, next_time, rt, sleep_length,
                   wakeAt, child, inFlight, drawnAt, runStart, prevRt,
                   prevEnd, skipped>>
    /\ UNCHANGED nonCronVars

CronNext ==
    \/ ClockTick
    \/ RunLoop
    \/ DirectEnds
    \/ GetNext
    \/ CheckDue
    \/ SleepLength
    \/ Wake
    \/ Submit
    \/ ChildEnds
    \/ Result

(***************************************************************************)
(* The playback controls of the dashboard: the callbacks run in the        *)
(* browser, one at a time, on button changes, clicks, interval ticks and   *)
(* timeouts.  A value that comes from the environment is a string, a       *)
(* default is a number; the callbacks compute with them as JavaScript      *)
(* does.                                                                   *)
(***************************************************************************)
MaxEnd == 2
MaxTimers == 3
MaxPending == 2
MaxClicks == 3

\* a JavaScript value: a number, or the string of one
JsNum(n) == [str |-> FALSE, n |-> n]
JsStr(n) == [str |-> TRUE, n |-> n]

RECURSIVE Shift(_, _)
\* a followed by the decimal digits of b, as a number
Shift(a, b) ==
    IF b < Len(Digits) THEN a * Len(Digits)
    ELSE Shift(a, b \div Len(Digits)) * Len(Digits)

\* old - speed_incr: the difference of the numbers
JsMinus(a, b) == JsNum(a.n - b.n)

\* old + speed_incr: the sum of two numbers, else the two strings joined
JsPlus(a, b) ==
    IF a.str \/ b.str THEN JsStr(Shift(a.n, b.n) + b.n)
    ELSE JsNum(a.n + b.n)

\* a test that lets zero through
NotNegative(x) == x.n >= 0

\* newspeed > 0
Positive(x) == x.n > 0

\* config.PLAY_SPEED and config.PLAY_SPEED_INCR, scaled down
PlaySpeeds == {JsNum(3), JsStr(2)}
PlaySpeedIncrs == {JsNum(1), JsStr(2)}

PlayInit ==
    /\ active = 1
    /\ slider_end \in 1..MaxEnd
    /\ slider_value = slider_end
    /\ interval_id = 0
    /\ intervals = {}
    /\ timeouts = 0
    /\ next_timer = 1
    /\ speed \in PlaySpeeds
    /\ speed_incr \in PlaySpeedIncrs
    /\ clicks = 0
    /\ lastClick = "none"
    /\ prevSpeed = speed
    /\ autoMoved = FALSE

PlayIdle ==
    /\ active = -1
    /\ slider_end = 1
    /\ slider_value = 1
    /\ interval_id = 0
    /\ intervals = {}
    /\ timeouts = 0
    /\ next_timer = 1
    /\ speed = JsNum(1)
    /\ speed_incr = JsNum(1)
    /\ clicks = 0
    /\ lastClick = "none"
    /\ prevSpeed = JsNum(1)
    /\ autoMoved = FALSE

\* stop(): clearInterval(play_buttons._id)
Stopped(ivs) == ivs \ {interval_id}

\* lines 322-323: play is selected; start() sets an interval
SelectPlay ==
    /\ active = 1
    /\ next_timer <= MaxTimers
    /\ active' = 0
    /\ intervals' = intervals \cup {next_timer}
    /\ interval_id' = next_timer
    /\ next_timer' = next_timer + 1
    /\ autoMoved' = FALSE
    /\ UNCHANGED <<slider_value, slider_end, timeouts, speed, speed_incr,
                   clicks, lastClick, prevSpeed>>
    /\ UNCHANGED nonPlayVars

\* lines 329-332: stop is selected
SelectStop ==
    /\ active = 0
    /\ active' = 1
    /\ intervals' = Stopped(intervals)
    /\ autoMoved' = FALSE
    /\ UNCHANGED <<slider_value, slider_end, interval_id, timeouts,
                   next_timer, speed, speed_incr, clicks, lastClick,
                   prevSpeed>>
    /\ UNCHANGED nonPlayVars

\* lines 324-328: reset is selected; the callback moves the group to stop,
\* which calls it once more
SelectReset ==
    /\ active \in {0, 1}
    /\ active' = 1
    /\ intervals' = Stopped(intervals)
    /\ slider_value' = 0
    /\ autoMoved' = FALSE
    /\ UNCHANGED <<slider_end, interval_id, timeouts, next_timer, speed,
                   speed_incr, clicks, lastClick, prevSpeed>>
    /\ UNCHANGED nonPlayVars

\* lines 307-315, 276-284: an interval fires advance()
Advance ==
    /\ \E id \in intervals :
        IF slider_value < slider_end
        THEN /\ slider_value' = slider_value + 1
             /\ autoMoved' = (autoMoved \/ active = 1)
             /\ UNCHANGED <<intervals, timeouts>>
        ELSE /\ timeouts < MaxPending
             /\ intervals' = Stopped(intervals)
             /\ timeouts' = timeouts + 1
             /\ UNCHANGED <<slider_value, autoMoved>>
    /\ UNCHANGED <<active, slider_end, interval_id, next_timer, speed,
                   speed_incr, clicks, lastClick, prevSpeed>>
    /\ UNCHANGED nonPlayVars

\* lines 301-305, 270-274: the timeout fires startover()
Startover ==
    /\ timeouts > 0
    /\ next_timer <= MaxTimers
    /\ timeouts' = timeouts - 1
    /\ slider_value' = 0
    /\ intervals' = intervals \cup {next_timer}
    /\ interval_id' = next_timer
    /\ next_timer' = next_timer + 1
    /\ autoMoved' = (autoMoved \/ active = 1)
    /\ UNCHANGED <<active, slider_end, speed, speed_incr, clicks, lastClick,
                   prevSpeed>>
    /\ UNCHANGED nonPlayVars

\* lines 286-289: the speed has changed; a running playback is restarted
\* with it
ChangeSpeed(ivs) ==
    IF active = 0
    THEN /\ next_timer <= MaxTimers
         /\ intervals' = Stopped(ivs) \cup {next_timer}
         /\ interval_id' = next_timer
         /\ next_timer' = next_timer + 1
    ELSE UNCHANGED <<intervals, interval_id, next_timer>>

\* lines 239-244: a click on the faster button
Faster ==
    /\ clicks < MaxClicks
    /\ clicks' = clicks + 1
    /\ lastClick' = "faster"
    /\ prevSpeed' = speed
    /\ IF Positive(JsMinus(speed, speed_incr))
       THEN /\ speed' = JsMinus(speed, speed_incr)
            /\ ChangeSpeed(intervals)
       ELSE UNCHANGED <<speed, intervals, interval_id, next_timer>>
    /\ UNCHANGED <<active, slider_value, slider_end, timeouts, speed_incr,
                   autoMoved>>
    /\ UNCHANGED nonPlayVars

\* lines 250-253: a click on the slower button
Slower ==
    /\ clicks < MaxClicks
    /\ clicks' = clicks + 1
    /\ lastClick' = "slower"
    /\ prevSpeed' = speed
    /\ speed' = JsPlus(speed, speed_incr)
    /\ ChangeSpeed(intervals)
    /\ UNCHANGED <<active, slider_value, slider_end, timeouts, speed_incr,
                   autoMoved>>
    /\ UNCHANGED nonPlayVars

PlayNext ==
    \/ SelectPlay
    \/ SelectStop
    \/ SelectReset
    \/ Advance
    \/ Startover
    \/ Faster
    \/ Slower

InitColor ==
    /\ ColorInit
    /\ ResampleIdle /\ LambdaIdle /\ MetaIdle /\ QueueIdle /\ PollIdle
    /\ SweepIdle /\ ForwardIdle /\ ListIdle /\ NameIdle /\ CronIdle
    /\ PlayIdle

SpecColor ==
    /\ InitColor
    /\ [][ColorNext]_vars

InitResample ==
    /\ ResampleInit
    /\ ColorIdle /\ LambdaIdle /\ MetaIdle /\ QueueIdle /\ PollIdle
    /\ SweepIdle /\ ForwardIdle /\ ListIdle /\ NameIdle /\ CronIdle
    /\ PlayIdle

SpecResample ==
    /\ InitResample
    /\ [][ResampleNext]_vars

InitLambda ==
    /\ LambdaInit
    /\ ColorIdle /\ ResampleIdle /\ MetaIdle /\ QueueIdle /\ PollIdle
    /\ SweepIdle /\ ForwardIdle /\ ListIdle /\ NameIdle /\ CronIdle
    /\ PlayIdle

SpecLambda ==
    /\ InitLambda
    /\ [][LambdaNext]_vars

InitMeta ==
    /\ MetaInit
    /\ ColorIdle /\ ResampleIdle /\ LambdaIdle /\ QueueIdle /\ PollIdle
    /\ SweepIdle /\ ForwardIdle /\ ListIdle /\ NameIdle /\ CronIdle
    /\ PlayIdle

SpecMeta ==
    /\ InitMeta
    /\ [][MetaNext]_vars

InitQueue ==
    /\ QueueInit
    /\ ColorIdle /\ ResampleIdle /\ LambdaIdle /\ MetaIdle /\ PollIdle
    /\ SweepIdle /\ ForwardIdle /\ ListIdle /\ NameIdle /\ CronIdle
    /\ PlayIdle

SpecQueue ==
    /\ InitQueue
    /\ [][QueueNext]_vars

InitPoll ==
    /\ PollInit
    /\ ColorIdle /\ ResampleIdle /\ LambdaIdle /\ MetaIdle /\ QueueIdle
    /\ SweepIdle /\ ForwardIdle /\ ListIdle /\ NameIdle /\ CronIdle
    /\ PlayIdle

SpecPoll ==
    /\ InitPoll
    /\ [][PollNext]_vars

InitSweep ==
    /\ SweepInit
    /\ ColorIdle /\ ResampleIdle /\ LambdaIdle /\ MetaIdle /\ QueueIdle
    /\ PollIdle /\ ForwardIdle /\ ListIdle /\ NameIdle /\ CronIdle
    /\ PlayIdle

SpecSweep ==
    /\ InitSweep
    /\ [][SweepNext]_vars

InitForward ==
    /\ ForwardInit
    /\ ColorIdle /\ ResampleIdle /\ LambdaIdle /\ MetaIdle /\ QueueIdle
    /\ PollIdle /\ SweepIdle /\ ListIdle /\ NameIdle /\ CronIdle /\ PlayIdle

SpecForward ==
    /\ InitForward
    /\ [][ForwardNext]_vars

InitList ==
    /\ ListInit
    /\ ColorIdle /\ ResampleIdle /\ LambdaIdle /\ MetaIdle /\ QueueIdle
    /\ PollIdle /\ SweepIdle /\ ForwardIdle /\ NameIdle /\ CronIdle
    /\ PlayIdle

SpecList ==
    /\ InitList
    /\ [][ListNext]_vars

InitName ==
    /\ NameInit
    /\ ColorIdle /\ ResampleIdle /\ LambdaIdle /\ MetaIdle /\ QueueIdle
    /\ PollIdle /\ SweepIdle /\ ForwardIdle /\ ListIdle /\ CronIdle
    /\ PlayIdle

SpecName ==
    /\ InitName
    /\ [][NameNext]_vars

InitCron ==
    /\ CronInit
    /\ ColorIdle /\ ResampleIdle /\ LambdaIdle /\ MetaIdle /\ QueueIdle
    /\ PollIdle /\ SweepIdle /\ ForwardIdle /\ ListIdle /\ NameIdle
    /\ PlayIdle

SpecCron ==
    /\ InitCron
    /\ [][CronNext]_vars

InitPlay ==
    /\ PlayInit
    /\ ColorIdle /\ ResampleIdle /\ LambdaIdle /\ MetaIdle /\ QueueIdle
    /\ PollIdle /\ SweepIdle /\ ForwardIdle /\ ListIdle /\ NameIdle
    /\ CronIdle

SpecPlay ==
    /\ InitPlay
    /\ [][PlayNext]_vars

\* ---- joint specifications
\* the three places that test a key against the prefix, one at a time
InitEligible ==
    \/ InitForward
    \/ InitList
    \/ InitLambda

EligibleNext ==
    \/ ForwardNext
    \/ ListNext
    \/ LambdaNext

SpecEligible ==
    /\ InitEligible
    /\ [][EligibleNext]_vars

(***************************************************************************)
(* The claims about make_geocolor_image, under SpecColor.                  *)
(***************************************************************************)

\* the spec's factor for a contrast parameter c, as a fraction
SpecFactor(c) == <<259 * (c + 255), 255 * (259 - c)>>

Abs(n) == IF n < 0 THEN -n ELSE n

RECURSIVE Gcd(_, _)
Gcd(a, b) == IF b = 0 THEN a ELSE Gcd(b, a % b)

\* a fraction with a positive denominator in lowest terms
Lowest(f) ==
    LET g == Gcd(Abs(f[1]), Abs(f[2])) IN <<f[1] \div g, f[2] \div g>>

\* C8: for every contrast parameter C of the supported range the factor the
\* Colorization Engine uses equals 259*(C+255) / (255*(259-C)), compared as
\* an exact rational (both fractions in lowest terms).
C8_FactorIsSpecFormula ==
    gpc = "returned" => Lowest(F) = Lowest(SpecFactor(CONTRAST))

\* C9: for all channel inputs, values below 0, above 1, NaN and the
\* infinities included, every element of the returned composite lies in
\* [0, 1] and none is NaN or infinite.
C9_CompositeInUnitRange ==
    gpc = "returned" =>
        \A i \in 1..3 : IsNum(out[i]) /\ out[i].v >= 0 /\ out[i].v <= Scale

(***************************************************************************)
(* The claims about process_sqs_event and save_s3, under SpecLambda.       *)
(***************************************************************************)

\* C1: publishing is write-once: when publish is invoked twice for the same
\* derived filename, one file of that name exists afterwards and its content
\* is the content the first publish wrote; the second never overwrites.
C1_WriteOnce ==
    \A n \in DOMAIN store : store[n] = firstWritten[n]

\* how many units of grid shape sh have had their weights computed and are
\* waiting to be resampled
Pending(sh) == IF lpc = "resample" /\ ds.shape = sh THEN 1 ELSE 0

\* C10 as the spec states it: over a sequence of units that share a grid
\* shape (the output grid and the search radius are fixed), the weight
\* computation runs at most once.
C10_WeightsComputedOnce ==
    \A sh \in Shapes : weightRuns[sh] <= 1

\* C10 as amended: the weight computation runs exactly once for every unit
\* that reaches resampling, units of an already seen shape included, and
\* each unit is resampled with the weights computed from its own dataset.
C10_WeightsComputedPerUnit ==
    /\ \A sh \in Shapes : weightRuns[sh] = resampled[sh] + Pending(sh)
    /\ lpc \in {"resample", "save"} => weights = BilInfo(ds)

\* C10's case: two units of one grid shape have been resampled
C10_Witness ==
    \E sh \in Shapes : resampled[sh] >= 2 /\ weightRuns[sh] >= 2

(***************************************************************************)
(* The claims about update_existing_file, under SpecMeta.                  *)
(***************************************************************************)

\* C2: when the write step fails partway and the error reaches the caller,
\* no new or partial content is visible under the final path, no temporary
\* file remains in the directory, and the original error is what
\* propagates; the rename happens only after the write fully succeeded.
C2_AtomicWrite ==
    /\ (mpc = "raised" /\ caught # NoError) =>
          /\ metadir[MetaFile].content = before
          /\ TmpFile \notin DOMAIN metadir
          /\ raised = caught
    /\ metadir[MetaFile].content # before => mpc = "returned"

(***************************************************************************)
(* The claims about queue mode, under SpecQueue.                           *)
(***************************************************************************)

\* C3: for every unit whose pipeline run lasted longer than one lease
\* interval, the lease-renewal task ran at least once before the message
\* was deleted, and no lease renewal occurs after a message was deleted.
C3_HeartbeatRenewsThenStops ==
    /\ (msgs[unit] = "deleted" /\ duration > LeaseTime) => renewals >= 1
    /\ lateRenewals = 0

\* C3's case: a message deleted after a pipeline run longer than the lease,
\* its lease renewed on the way
C3_Witness ==
    /\ msgs[unit] = "deleted"
    /\ duration > LeaseTime
    /\ renewals >= 1

\* C4: a message is deleted only after the pipeline for its unit completed
\* without error: no message whose pipeline raised, is running or has not
\* begun is deleted, so a failed unit stays on the queue.
C4_DeletedOnlyAfterSuccess ==
    \A m \in Msgs : msgs[m] = "deleted" => outcome[m] = "ok"

\* C4's case: one message deleted after its pipeline returned, another
\* back on the queue after its pipeline raised
C4_Witness ==
    \E m1, m2 \in Msgs :
        /\ msgs[m1] = "deleted" /\ outcome[m1] = "ok"
        /\ msgs[m2] = "visible" /\ outcome[m2] = "raised"

(***************************************************************************)
(* The claims about poll mode, under SpecPoll.                             *)
(***************************************************************************)

\* C5: across serialized poll invocations a candidate whose LockMarker
\* exists is never passed to the pipeline; for a candidate without one the
\* marker is created before the pipeline starts and is gone once the
\* pipeline has returned and the poller moves on, so the pipeline never
\* runs for a stamp whose marker is absent.
C5_LockProtocol ==
    /\ ppc = "pipeline" => (cand \in markers /\ ~hadMarker)
    /\ ppc = "unlink" => (cand \in markers /\ result = "ok")
    /\ (ppc = "list" /\ result = "ok") => cand \notin markers

\* C5's case: a pipeline runs for a new candidate while the marker of an
\* earlier candidate is on disk, in a later invocation
C5_Witness ==
    /\ ppc = "pipeline"
    /\ nPolls >= 2
    /\ \E ts \in markers : ts # cand

(***************************************************************************)
(* The claims about the retention sweeper, under SpecSweep.                *)
(***************************************************************************)

\* the hour a name of two digits stands for, read off the names directly
HourOf ==
    [n \in Names |->
        CASE n = <<"3", "0">> -> 30 [] n = <<"2", "9">> -> 29
          [] n = <<"0", "7">> -> 7 [] n = <<"0", "6">> -> 6
          [] n = <<"0", "5">> -> 5 [] n = <<"0", "0">> -> 0
          [] OTHER -> Unparsed]

\* C6: a sweep deletes exactly the files whose filename timestamp is older
\* than the threshold and no file whose name does not parse (such a name is
\* logged); with files at now, now-1h and now-25h and the default threshold
\* only the now-25h file is removed.
C6_SweepDeletesExactlyExpired ==
    /\ \A n \in dir0 : HourOf[n] = Unparsed => n \in outdir
    /\ spc = "done" =>
        /\ outdir = {n \in dir0 :
                        HourOf[n] = Unparsed \/ swnow - HourOf[n] <= max_age}
        /\ logged = {n \in dir0 : HourOf[n] = Unparsed}
        /\ (swnow = 30 /\ max_age = DefaultRetention
                /\ dir0 = {<<"3", "0">>, <<"2", "9">>, <<"0", "5">>})
            => outdir = {<<"3", "0">>, <<"2", "9">>}

\* C6's case: a finished sweep under the default threshold that removed the
\* now-25h file and kept the now-24h file and a name that does not parse
C6_Witness ==
    /\ spc = "done"
    /\ max_age = DefaultRetention
    /\ swnow = 30
    /\ {<<"0", "5">>, <<"0", "6">>, <<"0", "x">>, <<"2", "9">>} = dir0
    /\ outdir = {<<"0", "6">>, <<"0", "x">>, <<"2", "9">>}

(***************************************************************************)
(* The claims about resample_image, under SpecResample.                    *)
(***************************************************************************)
AllZero(img) == \A i \in DOMAIN img : img[i] = <<Num(0), Num(0), Num(0)>>

\* C7 as the spec states it: every output cell without a valid contributing
\* source neighbour gets alpha 0, and an all-zero composite gives an output
\* whose alpha band is zero in every cell.
C7_AlphaZeroWithoutNeighbours ==
    rpc = 4 =>
        /\ \A c \in 1..NOut : ~resample_params[c].valid => nimg[c][4] = 0
        /\ AllZero(img_arr) => \A c \in 1..NOut : nimg[c][4] = 0

\* C7 as amended: every output cell without a valid contributing source
\* neighbour gets color 0 in its three color bands, the alpha band is 255
\* in every cell, and an all-zero composite gives zero color bands (and
\* alpha 255) in every cell.
C7_ColorZeroAlphaOpaque ==
    rpc = 4 =>
        /\ \A c \in 1..NOut : nimg[c][4] = 255
        /\ \A c \in 1..NOut :
              ~resample_params[c].valid =>
                  \A b \in 1..3 : nimg[c][b] = 0
        /\ AllZero(img_arr) =>
              \A c \in 1..NOut : \A b \in 1..3 : nimg[c][b] = 0

\* C7's case: a returned raster of an all-zero composite with one cell
\* that has no neighbours and one that has
C7_Witness ==
    /\ rpc = 4
    /\ AllZero(img_arr)
    /\ \E c \in 1..NOut : ~resample_params[c].valid
    /\ \E c \in 1..NOut : resample_params[c].valid

(***************************************************************************)
(* The claims about filter_sqs.lambda_handler, under SpecForward.          *)
(***************************************************************************)

\* the records met so far whose key has the handler's prefix
Forwardable ==
    SelectSeq(fseen, LAMBDA r : StartsWith(r.key, FilterS3_PREFIX))

\* C17: the entries are exactly the prefix-matching records in event
\* order, each with body 'bucket:key' and with pairwise distinct Ids
\* '1'..'n'; send_messages is called exactly once with them when n >= 1
\* and never when n = 0, and the handler returns statusCode 200.
C17_OneBatchInOrder ==
    /\ Len(entries) = Len(Forwardable)
    /\ \A k \in 1..Len(entries) :
        /\ entries[k].Id = Str(k)
        /\ entries[k].MessageBody =
               <<Forwardable[k].bucket, ":">> \o Forwardable[k].key
    /\ \A k, l \in 1..Len(entries) :
        entries[k].Id = entries[l].Id => k = l
    /\ fpc \in {"idle", "erec", "rec", "send"} => sendCalls = <<>>
    /\ fpc \in {"respond", "returned", "raised"} =>
        sendCalls = IF entries = <<>> THEN <<>> ELSE <<entries>>
    /\ fpc = "returned" => statusCode = 200

\* C17's case: the handler returned after one batch of several entries,
\* having passed over a record without the prefix
C17_Witness ==
    /\ fpc = "returned"
    /\ Len(entries) >= 2
    /\ Len(fseen) > Len(entries)
    /\ sendCalls = <<entries>>

(***************************************************************************)
(* The claims about get_s3_keys, under SpecList.                           *)
(***************************************************************************)

\* the Contents of a sequence of pages, one after another
RECURSIVE Concat(_)
Concat(ps) == IF ps = <<>> THEN <<>> ELSE Head(ps).Contents \o Concat(Tail(ps))

\* the keys under the prefix that lie in the window of hour h
InWindow(h) ==
    SelectSeq(s3keys,
              LAMBDA k :
                  /\ StartsWith(k, prefix)
                  /\ \E product \in {S3_PREFIX, FilterS3_PREFIX} :
                        StartsWith(k, product \o <<"/">> \o Strftime(h)))

\* C15: a listing for an hour yields the objects of that hour's window
\* and, when that window holds none, the objects of the previous hour's
\* window.
C15_FallsBackToPreviousHour ==
    (kpc = "done" /\ timestamp # NoTimestamp) =>
        /\ InWindow(timestamp) # <<>> => yielded = InWindow(timestamp)
        /\ InWindow(timestamp) = <<>> => yielded = InWindow(timestamp - 1)

\* C16: the generator yields every prefix-matching key of every page
\* exactly once and in listing order, passes each page's
\* NextContinuationToken to the next request, and ends at the first page
\* with KeyCount 0 or without a NextContinuationToken.
C16_PaginationComplete ==
    /\ Len(requests) = Len(pages)
    /\ \A k \in 1..Len(requests) :
        requests[k] = IF k = 1 THEN NoToken
                      ELSE pages[k - 1].NextContinuationToken
    /\ \A k \in 1..(Len(pages) - 1) :
        pages[k].KeyCount > 0 /\ pages[k].NextContinuationToken # NoToken
    /\ \A k, l \in 1..Len(yielded) : yielded[k] = yielded[l] => k = l
    /\ kpc = "done" =>
        /\ pages # <<>>
        /\ \/ pages[Len(pages)].KeyCount = 0
           \/ pages[Len(pages)].NextContinuationToken = NoToken
        /\ yielded =
               SelectSeq(Concat(pages), LAMBDA k : StartsWith(k, prefix))
        /\ Concat(pages) =
               SelectSeq(s3keys, LAMBDA k : StartsWith(k, kwargs.Prefix))

\* C16's case: a listing of several pages has ended and yielded keys of
\* more than one page
C16_Witness ==
    /\ kpc = "done"
    /\ Len(pages) >= 2
    /\ Len(yielded) > max_keys

(***************************************************************************)
(* The claim about the prefix test of lambda_handler, process_sqs_event    *)
(* and get_s3_keys, under SpecEligible.                                    *)
(***************************************************************************)

\* the key begins with the parts of p
Prefixed(key, p) ==
    /\ Len(key) >= Len(p)
    /\ \A n \in 1..Len(p) : key[n] = p[n]

\* C11: an object is forwarded to the queue, passed to the pipeline or
\* yielded from a listing if and only if its key starts with the source
\* prefix the component is configured with.
C11_PrefixEligibility ==
    /\ [](/\ Len(entries) =
               Cardinality({k \in 1..Len(fseen) :
                               Prefixed(fseen[k].key, FilterS3_PREFIX)})
          /\ \A k \in 1..Len(entries) :
                \E r \in FwdRecords :
                    /\ Prefixed(r.key, FilterS3_PREFIX)
                    /\ entries[k].MessageBody = <<r.bucket, ":">> \o r.key
          /\ lpc \in {"open", "weights", "resample", "save"} =>
                Prefixed(record.key, S3_PREFIX)
          /\ \A k \in 1..Len(yielded) : Prefixed(yielded[k], prefix)
          /\ kpc = "done" =>
                \A k \in 1..Len(pages) :
                    \A n \in 1..Len(pages[k].Contents) :
                        Prefixed(pages[k].Contents[n], prefix) =>
                            \E l \in 1..Len(yielded) :
                                yielded[l] = pages[k].Contents[n])
    /\ [][lpc = "filter" =>
            ((lpc' = "open") <=> Prefixed(record.key, S3_PREFIX))]_vars

\* C11's case: the processing handler has stored an image and returned
\* after passing over a record whose key lacks the prefix
C11_Witness ==
    /\ handler = "returned"
    /\ record # NoRecord
    /\ ~Prefixed(record.key, S3_PREFIX)
    /\ store # EmptyStore

(***************************************************************************)
(* The claims about make_img_filename, under SpecName.                     *)
(***************************************************************************)

\* the second a time falls in
SecondOf(t) == t \div TicksPerSec

\* the second a time falls in once rounded to the nearest microsecond
RoundedSecondOf(t) ==
    ((2 * t + TicksPerMicro) \div (2 * TicksPerMicro)) \div MicrosPerSec

C13_LoopSurvivesError ==
    (cron # NoCron /\ child = "raised") => cpc # "crashed"

\* C14: at most one run of the work function is in flight at any time, and
\* run_loop does not draw, await or start the next scheduled run before
\* the previous run has returned or raised.
C14_OneRunInFlight ==
    /\ inFlight <= 1
    /\ cpc \in {"next", "check", "sleeplen", "sleep", "submit"} =>
        (inFlight = 0 /\ child # "running")
    /\ inFlight = 1 => cpc \in {"direct", "result"}

\* C14's case: a later scheduled run is in flight, the one before it
\* having ended
C14_Witness ==
    /\ cpc = "result"
    /\ inFlight = 1
    /\ child = "running"
    /\ prevEnd # NoTime
    /\ prevRt # NoTime

\* C18: every run starts no earlier than its scheduled time, the scheduled
\* times acted on are strictly increasing, and a scheduled time that has
\* passed when it is drawn is skipped, so a run starts only after the run
\* before it has ended and a scheduled time after that end has come.
C18_NoCatchUpRuns ==
    /\ cpc \in {"sleeplen", "sleep", "submit", "result"} =>
        /\ drawnAt < rt
        /\ prevRt < rt
    /\ (cpc \in {"sleeplen", "sleep", "submit"} \/ child = "running") =>
        prevEnd <= drawnAt
    /\ cpc = "result" =>
        /\ runStart >= rt
        /\ (prevEnd # NoTime /\ child = "running") => runStart > prevEnd
    /\ \A t \in skipped : t # rt /\ t # prevRt

\* C18's case: the run before overran a scheduled time, which was skipped,
\* and the next run is in flight
C18_Witness ==
    /\ cpc = "result"
    /\ child = "running"
    /\ prevRt # NoTime
    /\ \E t \in skipped : prevRt < t /\ t < rt /\ t <= prevEnd

(***************************************************************************)
(* The claims about the dashboard's playback controls, under SpecPlay.     *)
(***************************************************************************)

\* C19: once stop is selected, no timer advances or resets the slider, or
\* restarts the playback, until play is selected.
C19_StoppedStaysStopped ==
    active = 1 => ~autoMoved

\* C20: starting from a positive play speed the stored playback interval
\* stays strictly positive after any clicks on the faster and slower
\* buttons; a faster click that would make it zero or negative leaves it
\* unchanged, any other faster click lowers it by the increment.
C20_SpeedStaysPositive ==
    active # -1 =>
        /\ speed.n > 0
        /\ lastClick = "faster" =>
            IF prevSpeed.n - speed_incr.n <= 0
            THEN speed = prevSpeed
            ELSE speed.n = prevSpeed.n - speed_incr.n
        /\ lastClick = "slower" => speed.n > prevSpeed.n

\* C20's case: a faster click has been refused after an earlier click was
\* taken
C20_Witness ==
    /\ lastClick = "faster"
    /\ clicks >= 2
    /\ speed = prevSpeed
    /\ speed.n - speed_incr.n <= 0

=============================================================================
